---------------------------- MODULE Spec2Model ----------------------------
(***************************************************************************)
(* Model of main.py: the POST /generate-wireframe handler and its helpers  *)
(* get_filtered_nodes, reorder_nodes_creatively, get_figma_image and       *)
(* download_and_save_image.                                                *)
(*                                                                         *)
(* Python values are modelled as follows.                                  *)
(*   - text (the prompt, the keywords) is a sequence of one-character      *)
(*     strings, so that lower() and the substring test are computed;       *)
(*   - an Optional value is a record [ok, v]: None is [ok |-> FALSE];      *)
(*   - a JSON tree node is a record [hasId, id, type, width, children];    *)
(*   - the static directory is a function from file names to the sequence  *)
(*     of chunks written so far.                                           *)
(***************************************************************************)
EXTENDS Integers, Sequences, FiniteSets, TLC

(***************************************************************************)
(* Bounds of the model.                                                    *)
(***************************************************************************)
MaxNodes == 3
MaxDocNodes == 2
MaxChunks == 2
MaxRequests == 1
MaxList == 6

(***************************************************************************)
(* Program constants.                                                      *)
(***************************************************************************)
SliceLen == 5
STATIC_DIR == "static"
FIGMA_FILE_KEY == "WnXRJb9D39JEVUir53ShUy"
BaseUrl == "https://webmasterpro.onrender.com"
HTTP_OK == 200

(***************************************************************************)
(* Text: str.lower() and the substring test `a in b`.                      *)
(***************************************************************************)
UpperChars == <<"A","B","C","D","E","F","G","H","I","J","K","L","M",
                "N","O","P","Q","R","S","T","U","V","W","X","Y","Z">>
LowerChars == <<"a","b","c","d","e","f","g","h","i","j","k","l","m",
                "n","o","p","q","r","s","t","u","v","w","x","y","z">>

LowerChar(c) ==
    IF \E i \in 1..Len(UpperChars) : UpperChars[i] = c
    THEN LowerChars[CHOOSE i \in 1..Len(UpperChars) : UpperChars[i] = c]
    ELSE c

Lower(s) == [i \in 1..Len(s) |-> LowerChar(s[i])]

Contains(sub, s) ==
    \E i \in 0..(Len(s) - Len(sub)) : SubSeq(s, i + 1, i + Len(sub)) = sub

Keywords == << <<"h","e","a","d","e","r">>, <<"f","o","o","t","e","r">>,
               <<"b","u","t","t","o","n">>, <<"c","a","r","d">> >>

(***************************************************************************)
(* Optional values.                                                        *)
(***************************************************************************)
None == [ok |-> FALSE, v |-> <<>>]
Some(x) == [ok |-> TRUE, v |-> x]
\* Python truthiness of an Optional sequence or string: `not x`.
Falsy(x) == ~x.ok \/ x.v = <<>>
NoneStr == [ok |-> FALSE, v |-> ""]
FalsyStr(x) == ~x.ok \/ x.v = ""

(***************************************************************************)
(* The document tree of the files response.  NodeKinds are the shapes a    *)
(* JSON node can take with respect to the test of extract_nodes: a FRAME   *)
(* and a COMPONENT with an id, the node "0:0", a node without an "id" key, *)
(* a node of another type, and a FRAME whose id is the empty string.       *)
(***************************************************************************)
NodeKinds ==
    { [hasId |-> TRUE,  id |-> "1:2", type |-> "FRAME",     width |-> 100],
      [hasId |-> TRUE,  id |-> "1:3", type |-> "COMPONENT", width |-> 0],
      [hasId |-> TRUE,  id |-> "0:0", type |-> "FRAME",     width |-> 0],
      [hasId |-> FALSE, id |-> "",    type |-> "FRAME",     width |-> 0],
      [hasId |-> TRUE,  id |-> "1:4", type |-> "TEXT",      width |-> 0],
      [hasId |-> TRUE,  id |-> "",    type |-> "FRAME",     width |-> 0] }

MkNode(k, cs) ==
    [hasId |-> k.hasId, id |-> k.id, type |-> k.type, width |-> k.width,
     children |-> cs]

RECURSIVE TreesN(_), Forests(_)
\* The trees with exactly n nodes.
TreesN(n) == { MkNode(k, f) : k \in NodeKinds, f \in Forests(n - 1) }
\* The sequences of trees with n nodes in all.
Forests(n) ==
    IF n = 0 THEN { <<>> }
    ELSE UNION { { <<t>> \o f : t \in TreesN(k), f \in Forests(n - k) } :
                 k \in 1..n }

Trees == UNION { TreesN(n) : n \in 1..MaxNodes }
\* The documents the handler's requests are answered with.
DocTrees == UNION { TreesN(n) : n \in 1..MaxDocNodes }

\* data.get("document", {}) when the response has no "document" key.
EmptyNode == [hasId |-> FALSE, id |-> "", type |-> "", width |-> 0,
              children |-> <<>>]

\* What requests.get(".../v1/files/{file_id}") can produce: an exception
\* (connection error, or a body that is not JSON), a status other than 200,
\* or a 200 with or without a "document".
FilesResponsesOf(T) ==
    { [kind |-> "exception", status |-> 0, document |-> EmptyNode],
      [kind |-> "response", status |-> 403, document |-> EmptyNode],
      [kind |-> "response", status |-> HTTP_OK, document |-> EmptyNode] }
    \cup { [kind |-> "response", status |-> HTTP_OK, document |-> t] :
           t \in T }

\* Mutant of Relevant: the exclusion of "0:0" is forgotten.
RelevantWithRoot(node) ==
    node.hasId /\ node.type \in {"FRAME", "COMPONENT"}

\* The test of extract_nodes.
Relevant(node) ==
    node.hasId /\ node.type \in {"FRAME", "COMPONENT"} /\ node.id # "0:0"

RECURSIVE extract_nodes(_, _), extract_children(_, _, _)
\* extract_nodes(node) with the enclosing list `nodes` passed and returned.
extract_nodes(node, nodes) ==
    LET n1 == IF Relevant(node)
              THEN Append(nodes, <<node.id, node.width>>)
              ELSE nodes
    IN extract_children(node.children, 1, n1)
\* for child in node["children"]: extract_nodes(child)
extract_children(cs, i, nodes) ==
    IF i > Len(cs) THEN nodes
    ELSE extract_children(cs, i + 1, extract_nodes(cs[i], nodes))

\* any(word.lower() in prompt.lower() for word in [...])
KeywordInPrompt(prompt) ==
    \E w \in 1..Len(Keywords) : Contains(Lower(Keywords[w]), Lower(prompt))

\* Mutant of KeepNode: the keyword filter also looks at the node.
KeepNodeByWidth(n, prompt) == KeywordInPrompt(prompt) /\ n[2] > 0

\* The condition of the comprehension of line 120, evaluated for each n.
KeepNode(n, prompt) == KeywordInPrompt(prompt)

\* [n[0] for n in nodes if KeepNode(n, prompt)]
FilterIds(nodes, prompt) ==
    LET F[i \in 0..Len(nodes)] ==
            IF i = 0 THEN <<>>
            ELSE IF KeepNode(nodes[i], prompt)
                 THEN Append(F[i - 1], nodes[i][1])
                 ELSE F[i - 1]
    IN F[Len(nodes)]

\* [n[0] for n in nodes]
AllIds(nodes) == [i \in 1..Len(nodes) |-> nodes[i][1]]

\* Lines 120 to 126: the keyword filter and its fallback.
filtered_nodes(nodes, prompt) ==
    LET filtered == FilterIds(nodes, prompt)
    IN IF filtered = <<>> THEN AllIds(nodes) ELSE filtered

get_filtered_nodes(resp, prompt) ==
    IF resp.kind = "exception" THEN None
    ELSE IF resp.status # HTTP_OK THEN None
    ELSE LET nodes == extract_nodes(resp.document, <<>>)
         IN IF nodes = <<>> THEN None
            ELSE Some(filtered_nodes(nodes, prompt))

(***************************************************************************)
(* reorder_nodes_creatively: random.shuffle permutes the list in place,    *)
(* every permutation being a possible outcome; the result is its first     *)
(* five elements.                                                          *)
(***************************************************************************)
Range(s) == { s[i] : i \in 1..Len(s) }

RemoveAt(s, i) == SubSeq(s, 1, i - 1) \o SubSeq(s, i + 1, Len(s))

FirstIndex(s, x) == CHOOSE i \in 1..Len(s) :
                        s[i] = x /\ \A j \in 1..(i - 1) : s[j] # x

RECURSIVE Shuffles(_)
\* The orders random.shuffle can leave the list in.
Shuffles(s) ==
    IF s = <<>> THEN { <<>> }
    ELSE UNION { { <<x>> \o p : p \in Shuffles(RemoveAt(s, FirstIndex(s, x))) } :
                 x \in Range(s) }

\* node_list[:n]
Take(s, n) == SubSeq(s, 1, IF Len(s) < n THEN Len(s) ELSE n)

\* Mutant of reorder_nodes_creatively: the slice is one too long.
reorder_nodes_six(shuffled) == Take(shuffled, SliceLen + 1)

\* The value returned for the list as shuffled.
reorder_nodes_creatively(shuffled) == Take(shuffled, SliceLen)

(***************************************************************************)
(* get_figma_image: the images response is a dictionary, modelled as a set *)
(* of <<key, value>> pairs.                                                *)
(***************************************************************************)
ImgUrl == "https://figma-img/render.png"

DictGet(d, k, default) ==
    IF \E e \in d : e[1] = k THEN (CHOOSE e \in d : e[1] = k)[2] ELSE default

\* What requests.get(".../v1/images/{file_id}?ids={node_id}...") can produce.
ImagesResponses(node_id) ==
    { [kind |-> "exception", status |-> 0, images |-> {}],
      [kind |-> "response", status |-> 404, images |-> {}] }
    \cup { [kind |-> "response", status |-> HTTP_OK, images |-> m] :
           m \in { {}, { <<node_id, "">> }, { <<node_id, ImgUrl>> },
                   { <<"9:9", ImgUrl>> } } }

get_figma_image(resp, node_id) ==
    IF resp.kind = "exception" THEN NoneStr
    ELSE IF resp.status = HTTP_OK
         THEN LET img_url == DictGet(resp.images, node_id, "")
              IN IF img_url = "" THEN NoneStr ELSE Some(img_url)
         ELSE NoneStr

(***************************************************************************)
(* download_and_save_image: the body of the image response is a sequence   *)
(* of chunks, as iter_content yields them.                                 *)
(***************************************************************************)
ChunkValues == {"a", "b"}

RECURSIVE SeqsOfLen(_, _)
SeqsOfLen(S, n) ==
    IF n = 0 THEN { <<>> }
    ELSE { Append(q, x) : q \in SeqsOfLen(S, n - 1), x \in S }

SeqsUpTo(S, n) == UNION { SeqsOfLen(S, k) : k \in 0..n }

Contents == SeqsUpTo(ChunkValues, MaxChunks)

\* What requests.get(image_url, stream=True) can produce.
DownloadResponses ==
    { [kind |-> "exception", status |-> 0, chunks |-> <<>>],
      [kind |-> "response", status |-> 403, chunks |-> <<>>] }
    \cup { [kind |-> "response", status |-> HTTP_OK, chunks |-> c] :
           c \in Contents }

\* f"{uuid.uuid4()}.png": the uuids are taken distinct from those of the
\* files already in the directory.
Uuids == 0..MaxRequests
FileName(u) == [uuid |-> u, ext |-> "png"]

\* The static directory: file name -> chunks written.
EmptyDir == [n \in {} |-> <<>>]
OldFile == FileName(0)
CreateFile(dir, name) ==
    [n \in DOMAIN dir \cup {name} |-> IF n = name THEN <<>> ELSE dir[n]]
WriteFile(dir, name, chunk) ==
    [dir EXCEPT ![name] = Append(@, chunk)]

(***************************************************************************)
(* Requests and responses of POST /generate-wireframe.                     *)
(***************************************************************************)
\* The prompt is free text: empty, without a keyword, and with a keyword in
\* upper or lower case.
PromptLogo == <<"l","o","g","o">>
PromptHeader == <<"B","i","g"," ","H","e","a","d","e","r">>
PromptCard == <<"a"," ","c","a","r","d">>
PromptTexts == { <<>>, PromptLogo, PromptHeader, PromptCard }

\* The request bodies: one that request.json() or data.get rejects, and JSON
\* objects with or without "prompt" and "file_id".
Bodies ==
    { [kind |-> "invalid", hasPrompt |-> FALSE, prompt |-> <<>>,
       hasFileId |-> FALSE, file_id |-> ""],
      [kind |-> "object", hasPrompt |-> FALSE, prompt |-> <<>>,
       hasFileId |-> FALSE, file_id |-> ""],
      [kind |-> "object", hasPrompt |-> TRUE, prompt |-> <<>>,
       hasFileId |-> TRUE, file_id |-> "OtherFileKey"],
      [kind |-> "object", hasPrompt |-> TRUE, prompt |-> PromptLogo,
       hasFileId |-> FALSE, file_id |-> ""],
      [kind |-> "object", hasPrompt |-> TRUE, prompt |-> PromptHeader,
       hasFileId |-> TRUE, file_id |-> "OtherFileKey"] }

NoResponse == [status |-> 0, detail |-> "", info |-> "", download_url |-> <<>>]

\* Mutant of HandleHTTPException: the HTTPException is caught by the generic
\* handler of line 88.
HandleHTTPExceptionAsGeneric(status_code, detail) ==
    [status |-> 500, detail |-> "Error interno del servidor", info |-> "",
     download_url |-> <<>>]

\* raise HTTPException(status_code, detail) inside the try block: the handler
\* of line 86 re-raises it unchanged.
HandleHTTPException(status_code, detail) ==
    [status |-> status_code, detail |-> detail, info |-> "",
     download_url |-> <<>>]

\* Any other exception: the handler of line 88.
HandleException ==
    [status |-> 500, detail |-> "Error interno del servidor", info |-> "",
     download_url |-> <<>>]

\* WireframeResponse(info=..., download_url=f".../static/{local_filename}"):
\* the URL as its segments between "/".
WireframeResponse(local_filename) ==
    [status |-> HTTP_OK, detail |-> "",
     info |-> "Wireframe generado exitosamente",
     download_url |-> <<BaseUrl, STATIC_DIR, local_filename>>]

LastSegment(url) == url[Len(url)]

(***************************************************************************)
(* State.                                                                  *)
(***************************************************************************)
VARIABLES
    pc,             \* position of the handler
    prompt,         \* Optional text
    file_id,
    node_id_list,   \* Optional list of ids
    ordered_nodes,
    node_id,        \* get_figma_image: the node asked for (Optional)
    wireframe_url,  \* Optional string
    local_filename, \* Optional file name
    filename,       \* download_and_save_image: the file being written
    content,        \* the chunks of the image response
    response,       \* the response of the request
    static,         \* the static directory
    static0,        \* history: the directory when the request arrived
    calls,          \* history: outbound calls issued by this request
    trace,          \* history: the helpers this request has called
    failedAt,       \* history: the step that failed, or "none"
    nreq,           \* requests received
    gfn,            \* one call of get_filtered_nodes
    rnc             \* one call of reorder_nodes_creatively

locals == <<prompt, file_id, node_id_list, ordered_nodes, node_id, wireframe_url,
            local_filename, filename, content>>
history == <<static0, calls, trace, failedAt>>
vars == <<pc, locals, response, static, history, nreq, gfn, rnc>>

NoFile == [uuid |-> -1, ext |-> ""]
NoCalls == [files |-> 0, images |-> 0, download |-> 0]

LocalsInit ==
    /\ prompt = None
    /\ file_id = ""
    /\ node_id_list = None
    /\ ordered_nodes = <<>>
    /\ node_id = NoneStr
    /\ wireframe_url = NoneStr
    /\ local_filename = [ok |-> FALSE, v |-> NoFile]
    /\ filename = NoFile
    /\ content = <<>>

GfnIdle == [resp |-> [kind |-> "exception", status |-> 0, document |-> EmptyNode],
            prompt |-> <<>>, nodes |-> <<>>, result |-> None, done |-> FALSE]
RncIdle == [input |-> <<>>, node_list |-> <<>>, result |-> <<>>, done |-> FALSE]

\* After construction: the directory exists (line 28), empty or with a file
\* left by an earlier run.
Init ==
    /\ pc = "idle"
    /\ LocalsInit
    /\ response = NoResponse
    /\ static \in { EmptyDir, CreateFile(EmptyDir, OldFile) }
    /\ static0 = static
    /\ calls = NoCalls
    /\ trace = <<>>
    /\ failedAt = "none"
    /\ nreq = 0
    /\ gfn = GfnIdle
    /\ rnc = RncIdle

(***************************************************************************)
(* generate_wireframe, one action per step.                                *)
(***************************************************************************)
Fail(step, resp) ==
    /\ failedAt' = step
    /\ response' = resp
    /\ pc' = "done"

\* Lines 57 to 62: the body is read and the prompt checked.
ReceiveRequest ==
    /\ pc = "idle"
    /\ nreq < MaxRequests
    /\ nreq' = nreq + 1
    /\ static0' = static
    /\ calls' = NoCalls
    /\ trace' = <<>>
    /\ \E body \in Bodies :
         \/ /\ body.kind = "invalid"
            /\ Fail("body", HandleException)
            /\ UNCHANGED <<prompt, file_id>>
         \/ /\ body.kind = "object"
            /\ prompt' = IF body.hasPrompt THEN Some(body.prompt) ELSE None
            /\ file_id' = IF body.hasFileId THEN body.file_id
                          ELSE FIGMA_FILE_KEY
            /\ IF Falsy(prompt')
               THEN Fail("prompt",
                         HandleHTTPException(400, "Prompt no recibido"))
               ELSE /\ pc' = "list_nodes"
                    /\ UNCHANGED <<failedAt, response>>
    /\ UNCHANGED <<node_id_list, ordered_nodes, node_id, wireframe_url,
                   local_filename, filename, content, static, gfn, rnc>>

\* Line 65: node_id_list = get_filtered_nodes(file_id, prompt)
GetFilteredNodes ==
    /\ pc = "list_nodes"
    /\ \E resp \in FilesResponsesOf(DocTrees) :
         node_id_list' = get_filtered_nodes(resp, prompt.v)
    /\ calls' = [calls EXCEPT !.files = @ + 1]
    /\ trace' = Append(trace, "get_filtered_nodes")
    /\ failedAt' = IF Falsy(node_id_list') THEN "nodes" ELSE failedAt
    /\ pc' = "check_nodes"
    /\ UNCHANGED <<prompt, file_id, ordered_nodes, node_id, wireframe_url,
                   local_filename, filename, content, response, static,
                   static0, nreq, gfn, rnc>>

\* Lines 67 and 68.
CheckNodes ==
    /\ pc = "check_nodes"
    /\ IF Falsy(node_id_list)
       THEN /\ response' = HandleHTTPException(400,
                               "No se encontraron nodos validos en Figma")
            /\ pc' = "done"
       ELSE /\ pc' = "reorder"
            /\ UNCHANGED response
    /\ UNCHANGED <<locals, static, history, nreq, gfn, rnc>>

\* Line 71: the list is shuffled in place and its first five returned.
ReorderNodes ==
    /\ pc = "reorder"
    /\ \E shuffled \in Shuffles(node_id_list.v) :
         /\ node_id_list' = Some(shuffled)
         /\ ordered_nodes' = reorder_nodes_creatively(shuffled)
    /\ trace' = Append(trace, "reorder_nodes_creatively")
    /\ pc' = "get_image"
    /\ UNCHANGED <<prompt, file_id, node_id, wireframe_url, local_filename,
                   filename, content, response, static, static0, calls,
                   failedAt, nreq, gfn, rnc>>

\* Mutant of GetFigmaImage: a failed call is issued a second time.
GetFigmaImageRetry ==
    /\ pc = "get_image"
    /\ \E resp \in ImagesResponses(ordered_nodes[1]) :
         wireframe_url' = get_figma_image(resp, ordered_nodes[1])
    /\ node_id' = Some(ordered_nodes[1])
    /\ calls' = [calls EXCEPT !.images = @ + 1]
    /\ trace' = IF calls.images = 0 THEN Append(trace, "get_figma_image")
                ELSE trace
    /\ failedAt' = IF FalsyStr(wireframe_url') THEN "image" ELSE "none"
    /\ pc' = IF FalsyStr(wireframe_url') /\ calls.images = 0
             THEN "get_image" ELSE "check_image"
    /\ UNCHANGED <<prompt, file_id, node_id_list, ordered_nodes,
                   local_filename, filename, content, response, static,
                   static0, nreq, gfn, rnc>>

\* Line 74: wireframe_url = get_figma_image(file_id, ordered_nodes[0])
GetFigmaImage ==
    /\ pc = "get_image"
    /\ \E resp \in ImagesResponses(ordered_nodes[1]) :
         wireframe_url' = get_figma_image(resp, ordered_nodes[1])
    /\ node_id' = Some(ordered_nodes[1])
    /\ calls' = [calls EXCEPT !.images = @ + 1]
    /\ trace' = Append(trace, "get_figma_image")
    /\ failedAt' = IF FalsyStr(wireframe_url') THEN "image" ELSE failedAt
    /\ pc' = "check_image"
    /\ UNCHANGED <<prompt, file_id, node_id_list, ordered_nodes,
                   local_filename, filename, content, response, static,
                   static0, nreq, gfn, rnc>>

\* Mutant of CheckImage: the raise of line 76 is missing.
CheckImageNoRaise ==
    /\ pc = "check_image"
    /\ pc' = "download"
    /\ UNCHANGED <<locals, response, static, history, nreq, gfn, rnc>>

\* Lines 75 and 76.
CheckImage ==
    /\ pc = "check_image"
    /\ IF FalsyStr(wireframe_url)
       THEN /\ response' = HandleHTTPException(500,
                               "No se pudo obtener la imagen del wireframe")
            /\ pc' = "done"
       ELSE /\ pc' = "download"
            /\ UNCHANGED response
    /\ UNCHANGED <<locals, static, history, nreq, gfn, rnc>>

\* download_and_save_image returns None (lines 181 and 184).
ReturnNone ==
    /\ local_filename' = [ok |-> FALSE, v |-> NoFile]
    /\ failedAt' = "download"
    /\ pc' = "check_download"

\* Lines 168 and 169: response = requests.get(image_url, stream=True)
RequestImage ==
    /\ pc = "download"
    /\ calls' = [calls EXCEPT !.download = @ + 1]
    /\ trace' = Append(trace, "download_and_save_image")
    /\ \E resp \in DownloadResponses :
         IF resp.kind = "response" /\ resp.status = HTTP_OK
         THEN /\ content' = resp.chunks
              /\ pc' = "open"
              /\ UNCHANGED <<local_filename, failedAt>>
         ELSE /\ ReturnNone
              /\ UNCHANGED content
    /\ UNCHANGED <<prompt, file_id, node_id_list, ordered_nodes, node_id,
                   wireframe_url, filename, response, static, static0, nreq,
                   gfn, rnc>>

\* Lines 170 to 173: the name is generated and the file opened for writing;
\* open() creates the file empty, or raises.
OpenFile ==
    /\ pc = "open"
    /\ \E u \in Uuids :
         /\ FileName(u) \notin DOMAIN static
         /\ \/ /\ filename' = FileName(u)
               /\ static' = CreateFile(static, FileName(u))
               /\ pc' = "write"
               /\ UNCHANGED <<local_filename, failedAt>>
            \/ /\ ReturnNone
               /\ UNCHANGED <<filename, static>>
    /\ UNCHANGED <<prompt, file_id, node_id_list, ordered_nodes, node_id,
                   wireframe_url, content, response, static0, calls, trace,
                   nreq, gfn, rnc>>

\* Mutant of WriteChunk: an exception in the loop is swallowed and the name
\* returned all the same.
WriteChunkSwallow ==
    /\ pc = "write"
    /\ Len(static[filename]) < Len(content)
    /\ \/ /\ static' = WriteFile(static, filename,
                                 content[Len(static[filename]) + 1])
          /\ UNCHANGED <<local_filename, pc>>
       \/ /\ local_filename' = Some(filename)
          /\ pc' = "check_download"
          /\ UNCHANGED static
    /\ UNCHANGED <<prompt, file_id, node_id_list, ordered_nodes, node_id,
                   wireframe_url, filename, content, response, static0,
                   calls, trace, failedAt, nreq, gfn, rnc>>

\* Lines 174 and 175: the next chunk is written, or reading or writing it
\* raises and the exception handler of line 182 returns None.
WriteChunk ==
    /\ pc = "write"
    /\ Len(static[filename]) < Len(content)
    /\ \/ /\ static' = WriteFile(static, filename,
                                 content[Len(static[filename]) + 1])
          /\ UNCHANGED <<local_filename, failedAt, pc>>
       \/ /\ ReturnNone
          /\ UNCHANGED static
    /\ UNCHANGED <<prompt, file_id, node_id_list, ordered_nodes, node_id,
                   wireframe_url, filename, content, response, static0,
                   calls, trace, nreq, gfn, rnc>>

\* Lines 177 and 178: the loop is over and the name is returned.
ReturnFilename ==
    /\ pc = "write"
    /\ Len(static[filename]) = Len(content)
    /\ local_filename' = Some(filename)
    /\ pc' = "check_download"
    /\ UNCHANGED <<prompt, file_id, node_id_list, ordered_nodes, node_id,
                   wireframe_url, filename, content, response, static,
                   history, nreq, gfn, rnc>>

\* Mutant of CheckDownload: the test of line 80 is missing.
CheckDownloadNoTest ==
    /\ pc = "check_download"
    /\ response' = WireframeResponse(local_filename.v)
    /\ pc' = "done"
    /\ UNCHANGED <<locals, static, history, nreq, gfn, rnc>>

\* Lines 80 to 84.
CheckDownload ==
    /\ pc = "check_download"
    /\ response' = IF ~local_filename.ok
                   THEN HandleHTTPException(500, "Error al guardar la imagen")
                   ELSE WireframeResponse(local_filename.v)
    /\ pc' = "done"
    /\ UNCHANGED <<locals, static, history, nreq, gfn, rnc>>

\* The response is sent; the handler's locals are gone.
SendResponse ==
    /\ pc = "done"
    /\ pc' = "idle"
    /\ prompt' = None
    /\ file_id' = ""
    /\ node_id_list' = None
    /\ ordered_nodes' = <<>>
    /\ node_id' = NoneStr
    /\ wireframe_url' = NoneStr
    /\ local_filename' = [ok |-> FALSE, v |-> NoFile]
    /\ filename' = NoFile
    /\ content' = <<>>
    /\ response' = NoResponse
    /\ static0' = static
    /\ calls' = NoCalls
    /\ trace' = <<>>
    /\ failedAt' = "none"
    /\ UNCHANGED <<static, nreq, gfn, rnc>>

Next ==
    \/ ReceiveRequest
    \/ GetFilteredNodes
    \/ CheckNodes
    \/ ReorderNodes
    \/ GetFigmaImage
    \/ CheckImage
    \/ RequestImage
    \/ OpenFile
    \/ WriteChunk
    \/ ReturnFilename
    \/ CheckDownload
    \/ SendResponse

Spec == Init /\ [][Next]_vars

(***************************************************************************)
(* get_filtered_nodes on its own: one call on any response and any prompt. *)
(***************************************************************************)
HandlerIdle ==
    /\ pc = "idle"
    /\ LocalsInit
    /\ response = NoResponse
    /\ static = EmptyDir
    /\ static0 = static
    /\ calls = NoCalls
    /\ trace = <<>>
    /\ failedAt = "none"
    /\ nreq = 0

InitNodes ==
    /\ HandlerIdle
    /\ rnc = RncIdle
    /\ \E r \in FilesResponsesOf(Trees), p \in PromptTexts :
         gfn = [GfnIdle EXCEPT !.resp = r, !.prompt = p]

\* Lines 95 to 130; nodes is the list extract_nodes has filled.
CallGetFilteredNodes ==
    /\ ~gfn.done
    /\ gfn' = [gfn EXCEPT
                 !.nodes = IF gfn.resp.kind = "response"
                              /\ gfn.resp.status = HTTP_OK
                           THEN extract_nodes(gfn.resp.document, <<>>)
                           ELSE <<>>,
                 !.result = get_filtered_nodes(gfn.resp, gfn.prompt),
                 !.done = TRUE]
    /\ UNCHANGED <<pc, locals, response, static, history, nreq, rnc>>

NextNodes == CallGetFilteredNodes

SpecNodes == InitNodes /\ [][NextNodes]_vars

(***************************************************************************)
(* reorder_nodes_creatively on its own: one call on any list.              *)
(***************************************************************************)
ListIds == {"1:2", "1:3", "1:5"}

InitReorder ==
    /\ HandlerIdle
    /\ gfn = GfnIdle
    /\ \E l \in SeqsUpTo(ListIds, MaxList) :
         rnc = [RncIdle EXCEPT !.input = l, !.node_list = l]

\* Lines 135 and 136; node_list is the caller's list.
CallReorder ==
    /\ ~rnc.done
    /\ \E shuffled \in Shuffles(rnc.node_list) :
         rnc' = [rnc EXCEPT !.node_list = shuffled,
                            !.result = reorder_nodes_creatively(shuffled),
                            !.done = TRUE]
    /\ UNCHANGED <<pc, locals, response, static, history, nreq, gfn>>

NextReorder == CallReorder

SpecReorder == InitReorder /\ [][NextReorder]_vars

(***************************************************************************)
(* Properties.                                                             *)
(***************************************************************************)
Done == pc = "done"
Succeeded == Done /\ response.status = 200
FourSteps == <<"get_filtered_nodes", "reorder_nodes_creatively",
               "get_figma_image", "download_and_save_image">>
IsPrefix(a, b) == Len(a) <= Len(b) /\ SubSeq(b, 1, Len(a)) = a

\* C1, as stated: every request that fails (missing or empty prompt, failed
\* upstream call, empty node result) ends in HTTP 500 and in no other error
\* status.
C1_EveryFailureIs500 ==
    (Done /\ failedAt # "none") => response.status = 500

\* C1, amended: a request ends in success exactly when no step failed; a
\* missing or empty prompt and a failed or empty node listing end in HTTP
\* 400; an unreadable body, a failed render-URL call and a failed download
\* end in HTTP 500.
C1_FailureStatus ==
    Done =>
      /\ (failedAt = "none") <=> (response.status = 200)
      /\ failedAt \in {"prompt", "nodes"} => response.status = 400
      /\ failedAt \in {"body", "image", "download"} => response.status = 500

C1_Witness ==
    Done /\ failedAt = "nodes" /\ response.status = 400 /\ calls.files = 1

\* C2: once a step of the request has failed no later step is executed (no
\* call, no file write, no further helper), and the next thing the request
\* does is to end in an error response.
C2_AfterFailure ==
    (failedAt # "none" /\ pc # "done") =>
        /\ pc' = "done"
        /\ response'.status \in {400, 500}
        /\ calls' = calls
        /\ trace' = trace
        /\ static' = static

C2_FailedSoFar ==
    /\ failedAt \in {"body", "prompt"} =>
         Done /\ trace = <<>> /\ calls = NoCalls /\ static = static0
    /\ failedAt = "nodes" =>
         /\ trace = SubSeq(FourSteps, 1, 1)
         /\ calls.images = 0 /\ calls.download = 0 /\ static = static0
    /\ failedAt = "image" =>
         /\ trace = SubSeq(FourSteps, 1, 3)
         /\ calls.download = 0 /\ static = static0
    /\ (failedAt # "none" /\ Done) => response.status \in {400, 500}

C2_FirstFailureAborts == [](C2_FailedSoFar) /\ [][C2_AfterFailure]_vars

C2_Witness ==
    Done /\ failedAt = "image" /\ response.status = 500
         /\ calls.download = 0 /\ static = static0

\* C3: a request that reaches a success response has called the four helpers
\* once each in the order list nodes, reorder, render URL, download, and no
\* helper is called before the previous one returned a non-empty result.
C3_SuccessOrder ==
    /\ IsPrefix(trace, FourSteps)
    /\ Len(trace) >= 2 => ~Falsy(node_id_list)
    /\ Len(trace) >= 3 => (ordered_nodes # <<>> /\ node_id = Some(ordered_nodes[1]))
    /\ Len(trace) >= 4 => ~FalsyStr(wireframe_url)
    /\ Succeeded => (trace = FourSteps /\ local_filename.ok
                     /\ calls = [files |-> 1, images |-> 1, download |-> 1])

C3_Witness == Succeeded /\ trace = FourSteps /\ Len(ordered_nodes) >= 2

\* C4: whenever get_filtered_nodes returned a non-empty list, the node chosen
\* for rendering, ordered_nodes[0], exists, is a non-empty identifier and is
\* a member of the returned list.
C4_ChosenNodeNonEmpty ==
    /\ (pc = "get_image") => ordered_nodes # <<>>
    /\ node_id.ok =>
         /\ node_id.v # ""
         /\ node_id.v \in Range(node_id_list.v)

\* C5: within one request each of the three outbound calls is issued at most
\* once, whatever its outcome.
C5_NoRetry ==
    /\ calls.files <= 1
    /\ calls.images <= 1
    /\ calls.download <= 1

C5_Witness ==
    Done /\ failedAt = "download"
         /\ calls = [files |-> 1, images |-> 1, download |-> 1]

\* C6: the download_url of a success response ends in the generated file
\* name; that file was not in the static directory before the request, is in
\* it now and holds all the chunks of the image response.
C6_SuccessFileComplete ==
    Succeeded =>
      LET name == LastSegment(response.download_url)
      IN /\ response.download_url = <<BaseUrl, "static", name>>
         /\ local_filename = Some(name)
         /\ name \notin DOMAIN static0
         /\ name \in DOMAIN static
         /\ static[name] = content

C6_Witness ==
    Succeeded /\ Len(content) >= 2
              /\ static[LastSegment(response.download_url)] = content

\* C10: a request that ends in an error response leaves the static directory
\* as it was; a file is added only by a request that succeeds and names it.
C10_ErrorLeavesStatic ==
    Done =>
      /\ response.status # 200 => static = static0
      /\ \A n \in DOMAIN static \ DOMAIN static0 :
           Succeeded /\ LastSegment(response.download_url) = n

\* Paths of a tree: the child indices from the root to a node.
RECURSIVE Paths(_), NodeAt(_, _)
Paths(t) ==
    { <<>> } \cup UNION { { <<i>> \o q : q \in Paths(t.children[i]) } :
                          i \in 1..Len(t.children) }
NodeAt(t, path) ==
    IF path = <<>> THEN t ELSE NodeAt(t.children[path[1]], Tail(path))

\* a is visited before b by a depth-first, parent-first, left-to-right walk.
PreBefore(a, b) ==
    /\ a # b
    /\ \/ IsPrefix(a, b)
       \/ \E i \in 1..Len(a) :
            /\ i <= Len(b)
            /\ SubSeq(a, 1, i - 1) = SubSeq(b, 1, i - 1)
            /\ a[i] < b[i]

Wanted(t) ==
    { q \in Paths(t) : LET n == NodeAt(t, q)
                       IN n.hasId /\ n.type \in {"FRAME", "COMPONENT"}
                          /\ n.id # "0:0" }

Answered200 == gfn.done /\ gfn.resp.kind = "response" /\ gfn.resp.status = 200

Count(x, s) == Cardinality({ i \in 1..Len(s) : s[i] = x })
Min(a, b) == IF a < b THEN a ELSE b

\* C8: reorder_nodes_creatively(L) returns min(5, len(L)) elements, the
\* first ones of the list as shuffled; no element is returned more often
\* than it occurs in L, and the caller's list keeps the elements of L, each
\* as often as before.
C8_ReorderIsPermutationPrefix ==
    rnc.done =>
      /\ Len(rnc.result) = Min(5, Len(rnc.input))
      /\ IsPrefix(rnc.result, rnc.node_list)
      /\ Len(rnc.node_list) = Len(rnc.input)
      /\ \A x \in Range(rnc.input) \cup Range(rnc.node_list) :
           /\ Count(x, rnc.node_list) = Count(x, rnc.input)
           /\ Count(x, rnc.result) <= Count(x, rnc.input)

C8_Witness ==
    /\ rnc.done
    /\ Len(rnc.input) = 6
    /\ Len(rnc.result) = 5
    /\ rnc.node_list # rnc.input
    /\ Cardinality(Range(rnc.input)) = 3

=============================================================================
